---- MODULE Spec2Model ----
(***************************************************************************)
(* Model of responsive-image-sizes.js: the async main function that loads  *)
(* the contexts CSV (step 1), profiles the image width over the viewport   *)
(* range in headless Chrome (step 2) and computes the perfect widths       *)
(* histogram and the srcset (step 3).                                      *)
(*                                                                         *)
(* JavaScript numbers are modelled as records so that NaN, undefined and   *)
(* the infinities keep their comparison and arithmetic behaviour.  The     *)
(* density strings of the input set are dyadic (1, 1.5, 0), so the double  *)
(* product imageWidth * density is exact and Math.ceil is the exact        *)
(* ceiling.                                                                *)
(***************************************************************************)
EXTENDS Integers, Sequences, FiniteSets, TLC

\* ------------------------------------------------------------------ bounds
MaxRows == 2        \* lines in the contexts file
MaxViewport == 2    \* largest viewport width appearing in a data row
MaxWidth == 2       \* largest image width the page renders

\* --------------------------------------------------------- JS number values
NaN == [nan |-> TRUE, v |-> 0]
Int2(n) == [nan |-> FALSE, v |-> n]
undefined == [def |-> FALSE, v |-> 0]
Opt(n) == [def |-> TRUE, v |-> n]

\* a < b, a > b, a <= b, a >= b on numbers: false as soon as one is NaN
JSLt(a, b) == ~a.nan /\ ~b.nan /\ a.v < b.v
JSGt(a, b) == ~a.nan /\ ~b.nan /\ a.v > b.v
JSLe(a, b) == ~a.nan /\ ~b.nan /\ a.v <= b.v
JSGe(a, b) == ~a.nan /\ ~b.nan /\ a.v >= b.v
\* a + b
JSAdd(a, b) == IF a.nan \/ b.nan THEN NaN ELSE Int2(a.v + b.v)
\* Math.max(a, b), Math.min(a, b)
MathMax(a, b) == IF a.nan \/ b.nan THEN NaN ELSE IF a.v >= b.v THEN a ELSE b
MathMin(a, b) == IF a.nan \/ b.nan THEN NaN ELSE IF a.v <= b.v THEN a ELSE b

\* ------------------------------------------------------------ CSV strings
\* A CSV field is a sequence of one-character strings.
Digits == <<"0", "1", "2", "3", "4", "5", "6", "7", "8", "9">>
DigitSet == {Digits[i] : i \in 1..10}
DigitVal(c) == (CHOOSE i \in 1..10 : Digits[i] = c) - 1
Letters == {"a", "b", "c", "d", "e", "f", "g", "h", "i", "j", "k", "l", "m",
            "n", "o", "p", "q", "r", "s", "t", "u", "v", "w", "x", "y", "z",
            "A", "B", "C", "D", "E", "F", "G", "H", "I", "J", "K", "L", "M",
            "N", "O", "P", "Q", "R", "S", "T", "U", "V", "W", "X", "Y", "Z"}

\* length of the longest prefix of s[from..] made of digits
RECURSIVE DigitRun(_, _)
DigitRun(s, from) ==
  IF from <= Len(s) /\ s[from] \in DigitSet THEN 1 + DigitRun(s, from + 1) ELSE 0

\* value of the digits s[from..from+n-1], read in base 10
RECURSIVE DigitsValue(_, _, _)
DigitsValue(s, from, n) ==
  IF n = 0 THEN 0
  ELSE 10 * DigitsValue(s, from, n - 1) + DigitVal(s[from + n - 1])

RECURSIVE Pow10(_)
Pow10(n) == IF n = 0 THEN 1 ELSE 10 * Pow10(n - 1)

HasSign(s) == Len(s) >= 1 /\ s[1] \in {"-", "+"}
SignOf(s) == IF Len(s) >= 1 /\ s[1] = "-" THEN -1 ELSE 1

\* parseInt(value, 10): optional sign, then the longest run of digits;
\* NaN when there is no digit; anything after the digits is ignored
parseInt(s) ==
  LET start == IF HasSign(s) THEN 2 ELSE 1
      n == DigitRun(s, start)
  IN IF n = 0 THEN NaN ELSE Int2(SignOf(s) * DigitsValue(s, start, n))

\* parseFloat(value): optional sign, digits, optional "." and digits; NaN
\* when neither part has a digit.  The value is the fraction num / den.
FNaN == [nan |-> TRUE, num |-> 0, den |-> 1]
parseFloat(s) ==
  LET start == IF HasSign(s) THEN 2 ELSE 1
      ni == DigitRun(s, start)
      dot == start + ni
      hasDot == dot <= Len(s) /\ s[dot] = "."
      nf == IF hasDot THEN DigitRun(s, dot + 1) ELSE 0
  IN IF ni = 0 /\ nf = 0 THEN FNaN
     ELSE [nan |-> FALSE,
           num |-> SignOf(s) * (DigitsValue(s, start, ni) * Pow10(nf)
                                + DigitsValue(s, dot + 1, nf)),
           den |-> Pow10(nf)]

\* ------------------------------------------------------------- input sets
DigitStr(k) == <<Digits[k + 1]>>
\* the density and views fields of the well-formed rows
DensityViews == {<<<<"1", ".", "5">>, <<"1">>>>, <<<<"1">>, <<"0">>>>}
ValidRows ==
  {<<DigitStr(vp), dv[1], dv[2]>> : vp \in 1..MaxViewport, dv \in DensityViews}
HeaderRow == <<<<"w">>, <<"d">>, <<"v">>>>
BadRows == {<<<<"1">>, <<"1">>, <<"-", "1">>>>,   \* negative views
            <<<<"2">>, <<"0">>, <<>>>>}          \* density 0, empty views
RowSet == ValidRows \cup BadRows \cup {HeaderRow}
Files == UNION {[1..n -> RowSet] : n \in 0..MaxRows}
\* --minviewport 1 is no limit for viewports that are all >= 1
MinOptValues == {undefined} \cup {Opt(n) : n \in 2..MaxViewport}
MaxOptValues == {undefined} \cup {Opt(n) : n \in 1..MaxViewport}
Widths == 1..MaxWidth
\* at most MaxRows + 1 perfect widths exist, so "more widths than asked for"
\* needs a small --widthsnumber
WidthsNumbers == {1}

\* ------------------------------------------------------------------ state
VARIABLES
  pc,                  \* position in the async main function
  argv,                \* parsed command line: the options step 1 and
                       \* step 3 compute with; --variationsfile and
                       \* --destfile are read once, where they are drawn
  contextsCsv,         \* lines of the contexts file
  contexts,            \* rows returned by csvparse
  contextMinViewport, contextMaxViewport,
  minViewport, maxViewport,
  VIEWPORT,            \* VIEWPORT.width
  imageWidths,         \* sparse array: viewport width -> image width
  browser,             \* "none", "open", "closed"
  page,                \* "none", "open"
  perfectWidthsTemp,   \* sparse array / properties: key -> views
  totalViews,
  perfectWidths,       \* array of {width, percentage}
  srcset,
  variationsfile,      \* the file at argv.variationsfile
  destfile,            \* the file at argv.destfile
  errors               \* what went wrong, in order

vars == <<pc, argv, contextsCsv, contexts, contextMinViewport,
          contextMaxViewport, minViewport, maxViewport, VIEWPORT, imageWidths,
          browser, page, perfectWidthsTemp, totalViews, perfectWidths, srcset,
          variationsfile, destfile, errors>>

\* a file that does not exist (the yargs check refuses an existing one)
NotWritten == [written |-> FALSE, content |-> <<>>]

\* the yargs .check() callback: what it lets through
ArgvCheck(a) ==
  /\ (a.minviewport.def => a.minviewport.v >= 0)
  /\ (a.minviewport.def /\ a.maxviewport.def
        => ~(a.maxviewport.v < a.minviewport.v))

Argvs ==
  {a \in [minviewport : MinOptValues, maxviewport : MaxOptValues,
          widthsnumber : WidthsNumbers] : ArgvCheck(a)}

Init ==
  /\ pc = "load"
  /\ argv \in Argvs
  /\ contextsCsv \in Files
  /\ contexts = <<>>
  /\ contextMinViewport = NaN
  /\ contextMaxViewport = NaN
  /\ minViewport = NaN
  /\ maxViewport = NaN
  /\ VIEWPORT = NaN
  /\ imageWidths = <<>>
  /\ browser = "none"
  /\ page = "none"
  /\ perfectWidthsTemp = <<>>
  /\ totalViews = Int2(0)
  /\ perfectWidths = <<>>
  /\ srcset = <<>>
  /\ variationsfile = NotWritten
  /\ destfile = NotWritten
  /\ errors = <<>>

\* ------------------------------------------------ step 1: load the contexts
csvHasHeader(csv) ==
  \E i \in 1..Len(csv) : \E f \in 1..3 : \E k \in 1..Len(csv[i][f]) :
     csv[i][f][k] \in Letters

castRow(row) ==
  [viewport |-> parseInt(row[1]),
   density |-> parseFloat(row[2]),
   views |-> parseInt(row[3])]

csvparse(csv) ==
  LET from == IF csvHasHeader(csv) THEN 2 ELSE 1
  IN [i \in 1..(IF Len(csv) >= from THEN Len(csv) - from + 1 ELSE 0)
        |-> castRow(csv[i + from - 1])]

\* contexts.reduce((min, p) => (p.viewport < min ? p.viewport : min), init)
RECURSIVE reduceMin(_, _, _)
reduceMin(ctx, i, min) ==
  IF i > Len(ctx) THEN min
  ELSE reduceMin(ctx, i + 1,
                 IF JSLt(ctx[i].viewport, min) THEN ctx[i].viewport ELSE min)

RECURSIVE reduceMax(_, _, _)
reduceMax(ctx, i, max) ==
  IF i > Len(ctx) THEN max
  ELSE reduceMax(ctx, i + 1,
                 IF JSGt(ctx[i].viewport, max) THEN ctx[i].viewport ELSE max)

\* effectiveMin with Math.min in place of Math.max
effectiveMin_min(cmin, a) ==
  IF a.minviewport.def THEN MathMin(cmin, Int2(a.minviewport.v)) ELSE cmin

effectiveMin(cmin, a) ==
  IF a.minviewport.def THEN MathMax(cmin, Int2(a.minviewport.v)) ELSE cmin

effectiveMax(cmax, a) ==
  IF a.maxviewport.def THEN MathMin(cmax, Int2(a.maxviewport.v)) ELSE cmax

\* lines 183-224 with a non-empty parse result
LoadContexts ==
  /\ pc = "load"
  /\ LET ctx == csvparse(contextsCsv)
     IN /\ Len(ctx) > 0
        /\ contexts' = ctx
        /\ contextMinViewport' = reduceMin(ctx, 1, ctx[1].viewport)
        /\ contextMaxViewport' = reduceMax(ctx, 1, ctx[1].viewport)
        /\ minViewport' = effectiveMin(reduceMin(ctx, 1, ctx[1].viewport), argv)
        /\ maxViewport' = effectiveMax(reduceMax(ctx, 1, ctx[1].viewport), argv)
  /\ VIEWPORT' = minViewport'
  /\ pc' = "launch"
  /\ UNCHANGED <<argv, contextsCsv, imageWidths, browser, page,
                 perfectWidthsTemp, totalViews, perfectWidths, srcset,
                 variationsfile, destfile, errors>>

\* contexts[0].viewport on an empty array throws a TypeError: the async
\* function rejects and nothing after line 203 runs
LoadContextsEmpty ==
  /\ pc = "load"
  /\ Len(csvparse(contextsCsv)) = 0
  /\ contexts' = csvparse(contextsCsv)
  /\ errors' = Append(errors, "TypeError:contexts")
  /\ pc' = "rejected"
  /\ UNCHANGED <<argv, contextsCsv, contextMinViewport, contextMaxViewport,
                 minViewport, maxViewport, VIEWPORT, imageWidths, browser,
                 page, perfectWidthsTemp, totalViews, perfectWidths, srcset,
                 variationsfile, destfile>>

\* ------------------------------------------- step 2: profile the image
\* await puppeteer.launch() resolves
Launch ==
  /\ pc = "launch"
  /\ browser' = "open"
  /\ pc' = "newPage"
  /\ UNCHANGED <<argv, contextsCsv, contexts, contextMinViewport,
                 contextMaxViewport, minViewport, maxViewport, VIEWPORT,
                 imageWidths, page, perfectWidthsTemp, totalViews,
                 perfectWidths, srcset, variationsfile, destfile, errors>>

\* await puppeteer.launch() rejects: the async function rejects
LaunchFail ==
  /\ pc = "launch"
  /\ errors' = Append(errors, "launch")
  /\ pc' = "rejected"
  /\ UNCHANGED <<argv, contextsCsv, contexts, contextMinViewport,
                 contextMaxViewport, minViewport, maxViewport, VIEWPORT,
                 imageWidths, browser, page, perfectWidthsTemp, totalViews,
                 perfectWidths, srcset, variationsfile, destfile>>

\* await browser.newPage() resolves
NewPage ==
  /\ pc = "newPage"
  /\ page' = "open"
  /\ pc' = "goto"
  /\ UNCHANGED <<argv, contextsCsv, contexts, contextMinViewport,
                 contextMaxViewport, minViewport, maxViewport, VIEWPORT,
                 imageWidths, browser, perfectWidthsTemp, totalViews,
                 perfectWidths, srcset, variationsfile, destfile, errors>>

\* await browser.newPage() rejects: the async function rejects at line 255,
\* line 350 is never reached
NewPageFail ==
  /\ pc = "newPage"
  /\ errors' = Append(errors, "newPage")
  /\ pc' = "rejected"
  /\ UNCHANGED <<argv, contextsCsv, contexts, contextMinViewport,
                 contextMaxViewport, minViewport, maxViewport, VIEWPORT,
                 imageWidths, browser, page, perfectWidthsTemp, totalViews,
                 perfectWidths, srcset, variationsfile, destfile>>

\* page.goto() resolves: the .then() callback starts
Goto ==
  /\ pc = "goto"
  /\ pc' = "while"
  /\ UNCHANGED <<argv, contextsCsv, contexts, contextMinViewport,
                 contextMaxViewport, minViewport, maxViewport, VIEWPORT,
                 imageWidths, browser, page, perfectWidthsTemp, totalViews,
                 perfectWidths, srcset, variationsfile, destfile, errors>>

\* page.goto() rejects: .catch() logs and the function goes on at line 350
GotoFail ==
  /\ pc = "goto"
  /\ errors' = Append(errors, "goto")
  /\ pc' = "close"
  /\ UNCHANGED <<argv, contextsCsv, contexts, contextMinViewport,
                 contextMaxViewport, minViewport, maxViewport, VIEWPORT,
                 imageWidths, browser, page, perfectWidthsTemp, totalViews,
                 perfectWidths, srcset, variationsfile, destfile>>

\* the loop condition with < in place of <=
whileCondition_lt(width, max) == JSLt(width, max)

\* while (VIEWPORT.width <= maxViewport)
whileCondition(width, max) == JSLe(width, max)

\* the loop goes on: await page.setViewport(VIEWPORT) and the sleep resolve
SetViewport ==
  /\ pc = "while"
  /\ whileCondition(VIEWPORT, maxViewport)
  /\ pc' = "evaluate"
  /\ UNCHANGED <<argv, contextsCsv, contexts, contextMinViewport,
                 contextMaxViewport, minViewport, maxViewport, VIEWPORT,
                 imageWidths, browser, page, perfectWidthsTemp, totalViews,
                 perfectWidths, srcset, variationsfile, destfile, errors>>

\* page.setViewport() rejects inside the .then() callback: the same .catch()
SetViewportFail ==
  /\ pc = "while"
  /\ whileCondition(VIEWPORT, maxViewport)
  /\ errors' = Append(errors, "setViewport")
  /\ pc' = "close"
  /\ UNCHANGED <<argv, contextsCsv, contexts, contextMinViewport,
                 contextMaxViewport, minViewport, maxViewport, VIEWPORT,
                 imageWidths, browser, page, perfectWidthsTemp, totalViews,
                 perfectWidths, srcset, variationsfile, destfile>>

\* page.evaluate() returns the image width: store it, VIEWPORT.width++
Evaluate ==
  /\ pc = "evaluate"
  /\ \E imageWidth \in Widths :
       imageWidths' = [w \in DOMAIN imageWidths \cup {VIEWPORT.v} |->
                         IF w = VIEWPORT.v THEN imageWidth ELSE imageWidths[w]]
  /\ VIEWPORT' = Int2(VIEWPORT.v + 1)
  /\ pc' = "while"
  /\ UNCHANGED <<argv, contextsCsv, contexts, contextMinViewport,
                 contextMaxViewport, minViewport, maxViewport, browser, page,
                 perfectWidthsTemp, totalViews, perfectWidths, srcset,
                 variationsfile, destfile, errors>>

\* document.querySelector(sel) is null: page.evaluate() rejects, .catch()
EvaluateFail ==
  /\ pc = "evaluate"
  /\ errors' = Append(errors, "evaluate")
  /\ pc' = "close"
  /\ UNCHANGED <<argv, contextsCsv, contexts, contextMinViewport,
                 contextMaxViewport, minViewport, maxViewport, VIEWPORT,
                 imageWidths, browser, page, perfectWidthsTemp, totalViews,
                 perfectWidths, srcset, variationsfile, destfile>>

\* the loop is over and argv.variationsfile is set: writeFile resolves
SaveVariations ==
  /\ pc = "while"
  /\ ~whileCondition(VIEWPORT, maxViewport)
  /\ variationsfile' = [written |-> TRUE, content |-> imageWidths]
  /\ pc' = "close"
  /\ UNCHANGED <<argv, contextsCsv, contexts, contextMinViewport,
                 contextMaxViewport, minViewport, maxViewport, VIEWPORT,
                 imageWidths, browser, page, perfectWidthsTemp, totalViews,
                 perfectWidths, srcset, destfile, errors>>

\* argv.variationsfile is set and writeFile rejects: its own .catch() logs
SaveVariationsFail ==
  /\ pc = "while"
  /\ ~whileCondition(VIEWPORT, maxViewport)
  /\ errors' = Append(errors, "writeFile:variationsfile")
  /\ pc' = "close"
  /\ UNCHANGED <<argv, contextsCsv, contexts, contextMinViewport,
                 contextMaxViewport, minViewport, maxViewport, VIEWPORT,
                 imageWidths, browser, page, perfectWidthsTemp, totalViews,
                 perfectWidths, srcset, variationsfile, destfile>>

\* argv.variationsfile is not set
NoVariationsFile ==
  /\ pc = "while"
  /\ ~whileCondition(VIEWPORT, maxViewport)
  /\ pc' = "close"
  /\ UNCHANGED <<argv, contextsCsv, contexts, contextMinViewport,
                 contextMaxViewport, minViewport, maxViewport, VIEWPORT,
                 imageWidths, browser, page, perfectWidthsTemp, totalViews,
                 perfectWidths, srcset, variationsfile, destfile, errors>>

\* await page.browser().close()
Close ==
  /\ pc = "close"
  /\ browser' = "closed"
  /\ page' = "none"
  /\ pc' = "step3"
  /\ UNCHANGED <<argv, contextsCsv, contexts, contextMinViewport,
                 contextMaxViewport, minViewport, maxViewport, VIEWPORT,
                 imageWidths, perfectWidthsTemp, totalViews, perfectWidths,
                 srcset, variationsfile, destfile, errors>>

\* ------------------------------------- step 3: perfect widths and srcset
\* Math.ceil(a / d) for d > 0
CeilDiv(a, d) == -((-a) \div d)

\* Math.ceil(imageWidths[value.viewport] * value.density); a hole of
\* imageWidths reads as undefined, and undefined * density is NaN
perfectWidthOf(value, widths) ==
  IF value.viewport.v \notin DOMAIN widths \/ value.density.nan THEN NaN
  ELSE Int2(CeilDiv(widths[value.viewport.v] * value.density.num,
                    value.density.den))

\* the range filter with > in place of >=
inRange_exclusive(value, min, max) ==
  JSGt(value.viewport, min) /\ JSLe(value.viewport, max)

inRange(value, min, max) ==
  JSGe(value.viewport, min) /\ JSLe(value.viewport, max)

\* the contexts.map() callback of lines 366-375 applied to contexts[1..i]:
\* the pair of perfectWidthsTemp (key -> views) and totalViews
RECURSIVE accumulate(_, _, _, _, _)
accumulate(ctx, i, widths, min, max) ==
  IF i = 0 THEN [temp |-> <<>>, total |-> Int2(0)]
  ELSE LET acc == accumulate(ctx, i - 1, widths, min, max)
           value == ctx[i]
           perfectWidth == perfectWidthOf(value, widths)
           old == IF perfectWidth \in DOMAIN acc.temp
                  THEN acc.temp[perfectWidth] ELSE Int2(0)
       IN IF inRange(value, min, max)
          THEN [temp |-> [k \in DOMAIN acc.temp \cup {perfectWidth} |->
                            IF k = perfectWidth THEN JSAdd(old, value.views)
                            ELSE acc.temp[k]],
                total |-> JSAdd(acc.total, value.views)]
          ELSE acc

\* value / totalViews
PNaN == [k |-> "nan", n |-> 0, d |-> 1]
JSDiv(value, total) ==
  IF value.nan \/ total.nan THEN PNaN
  ELSE IF total.v = 0
       THEN IF value.v = 0 THEN PNaN
            ELSE IF value.v > 0 THEN [k |-> "pinf", n |-> 0, d |-> 1]
            ELSE [k |-> "ninf", n |-> 0, d |-> 1]
  ELSE [k |-> "num", n |-> value.v, d |-> total.v]

\* the keys of a sparse array that are array indices, the ones map() visits
indices(temp) == {k \in DOMAIN temp : ~k.nan /\ k.v >= 0}

\* perfectWidthsTemp.map() of lines 378-383: one entry per index, ascending
RECURSIVE withoutHoles(_, _, _)
withoutHoles(temp, keys, total) ==
  IF keys = {} THEN <<>>
  ELSE LET first == CHOOSE k \in keys : \A o \in keys : k.v <= o.v
       IN <<[width |-> first.v, percentage |-> JSDiv(temp[first], total)]>>
          \o withoutHoles(temp, keys \ {first}, total)

Sign(n) == IF n > 0 THEN 1 ELSE IF n < 0 THEN -1 ELSE 0

\* the comparator with a.percentage - b.percentage
compare_ascending(a, b) ==
  LET pa == a.percentage
      pb == b.percentage
  IN IF pa.k = "nan" \/ pb.k = "nan" THEN 0
     ELSE IF pa.k = pb.k /\ pa.k # "num" THEN 0
     ELSE IF pb.k = "pinf" \/ pa.k = "ninf" THEN -1
     ELSE IF pb.k = "ninf" \/ pa.k = "pinf" THEN 1
     ELSE Sign((pa.n * pb.d - pb.n * pa.d) * Sign(pa.d * pb.d))

\* sign of b.percentage - a.percentage; a NaN result counts as 0 in sort()
compare(a, b) ==
  LET pa == a.percentage
      pb == b.percentage
  IN IF pa.k = "nan" \/ pb.k = "nan" THEN 0
     ELSE IF pa.k = pb.k /\ pa.k # "num" THEN 0
     ELSE IF pb.k = "pinf" \/ pa.k = "ninf" THEN 1
     ELSE IF pb.k = "ninf" \/ pa.k = "pinf" THEN -1
     ELSE Sign((pb.n * pa.d - pa.n * pb.d) * Sign(pa.d * pb.d))

\* a consistent comparator in the sense of Array.prototype.sort
consistent(arr) ==
  \A i, j, k \in 1..Len(arr) :
     /\ compare(arr[i], arr[j]) = -compare(arr[j], arr[i])
     /\ (compare(arr[i], arr[j]) = 0 /\ compare(arr[j], arr[k]) = 0
           => compare(arr[i], arr[k]) = 0)
     /\ (compare(arr[i], arr[j]) < 0 /\ compare(arr[j], arr[k]) < 0
           => compare(arr[i], arr[k]) < 0)

\* insert e after the entries that do not compare greater than it
RECURSIVE insertSorted(_, _)
insertSorted(arr, e) ==
  IF arr = <<>> THEN <<e>>
  ELSE IF compare(arr[1], e) <= 0 THEN <<arr[1]>> \o insertSorted(Tail(arr), e)
  ELSE <<e>> \o arr

RECURSIVE stableSort(_, _)
stableSort(arr, n) ==
  IF n = 0 THEN <<>> ELSE insertSorted(stableSort(arr, n - 1), arr[n])

\* perfectWidths.sort((a, b) => b.percentage - a.percentage): the sorted
\* array; with an inconsistent comparator the order is implementation-defined
sort(arr) ==
  IF consistent(arr) THEN {stableSort(arr, Len(arr))}
  ELSE {[i \in 1..Len(arr) |-> arr[p[i]]] : p \in Permutations(1..Len(arr))}

\* lines 364-397
ComputePerfectWidths ==
  /\ pc = "step3"
  /\ LET acc == accumulate(contexts, Len(contexts), imageWidths,
                           minViewport, maxViewport)
     IN /\ perfectWidthsTemp' = acc.temp
        /\ totalViews' = acc.total
        /\ perfectWidths' \in
             sort(withoutHoles(acc.temp, indices(acc.temp), acc.total))
  /\ pc' = "srcset"
  /\ UNCHANGED <<argv, contextsCsv, contexts, contextMinViewport,
                 contextMaxViewport, minViewport, maxViewport, VIEWPORT,
                 imageWidths, browser, page, srcset, variationsfile,
                 destfile, errors>>

\* lines 399-407: "// todo", let srcset = []
FindBestWidths ==
  /\ pc = "srcset"
  /\ srcset' = <<>>
  /\ pc' = "destfile"
  /\ UNCHANGED <<argv, contextsCsv, contexts, contextMinViewport,
                 contextMaxViewport, minViewport, maxViewport, VIEWPORT,
                 imageWidths, browser, page, perfectWidthsTemp, totalViews,
                 perfectWidths, variationsfile, destfile, errors>>

\* argv.destfile is set and writeFile resolves
SaveDest ==
  /\ pc = "destfile"
  /\ destfile' = [written |-> TRUE, content |-> srcset]
  /\ pc' = "done"
  /\ UNCHANGED <<argv, contextsCsv, contexts, contextMinViewport,
                 contextMaxViewport, minViewport, maxViewport, VIEWPORT,
                 imageWidths, browser, page, perfectWidthsTemp, totalViews,
                 perfectWidths, srcset, variationsfile, errors>>

\* argv.destfile is set and writeFile rejects: its own .catch() logs
SaveDestFail ==
  /\ pc = "destfile"
  /\ errors' = Append(errors, "writeFile:destfile")
  /\ pc' = "done"
  /\ UNCHANGED <<argv, contextsCsv, contexts, contextMinViewport,
                 contextMaxViewport, minViewport, maxViewport, VIEWPORT,
                 imageWidths, browser, page, perfectWidthsTemp, totalViews,
                 perfectWidths, srcset, variationsfile, destfile>>

\* argv.destfile is not set
NoDestFile ==
  /\ pc = "destfile"
  /\ pc' = "done"
  /\ UNCHANGED <<argv, contextsCsv, contexts, contextMinViewport,
                 contextMaxViewport, minViewport, maxViewport, VIEWPORT,
                 imageWidths, browser, page, perfectWidthsTemp, totalViews,
                 perfectWidths, srcset, variationsfile, destfile, errors>>

Next ==
  \/ LoadContexts \/ LoadContextsEmpty
  \/ Launch \/ LaunchFail \/ NewPage \/ NewPageFail \/ Goto \/ GotoFail
  \/ SetViewport \/ SetViewportFail \/ Evaluate \/ EvaluateFail
  \/ SaveVariations \/ SaveVariationsFail \/ NoVariationsFile \/ Close
  \/ ComputePerfectWidths \/ FindBestWidths
  \/ SaveDest \/ SaveDestFail \/ NoDestFile

Spec == Init /\ [][Next]_vars

\* ===================================================== properties checked
ProfilingErrors == {"goto", "setViewport", "evaluate"}
StageErrors == ProfilingErrors \cup {"TypeError:contexts", "launch", "newPage"}
ProfilingFailed == \E i \in 1..Len(errors) : errors[i] \in ProfilingErrors
StageFailed == \E i \in 1..Len(errors) : errors[i] \in StageErrors
\* the .then() callback got past the while loop
ProfilingCompleted ==
  pc \in {"close", "step3", "srcset", "destfile", "done"} /\ ~ProfilingFailed
\* ComputePerfectWidths has run
HistogramBuilt == pc \in {"srcset", "destfile", "done"}
\* FindBestWidths has run
WidthsSelected == pc \in {"destfile", "done"}

RECURSIVE SumOver(_, _)
SumOver(S, f) ==
  IF S = {} THEN 0
  ELSE LET x == CHOOSE y \in S : TRUE IN f[x] + SumOver(S \ {x}, f)

Buckets == 1..Len(perfectWidths)
BucketWidths == {perfectWidths[i].width : i \in Buckets}
Samples == 1..Len(contexts)
\* the sample's viewport is a number inside [minViewport, maxViewport]
Included(i) ==
  /\ ~contexts[i].viewport.nan /\ ~minViewport.nan /\ ~maxViewport.nan
  /\ minViewport.v <= contexts[i].viewport.v
  /\ contexts[i].viewport.v <= maxViewport.v
IncludedSamples == {i \in Samples : Included(i)}
\* c is the ceiling of the fraction a / d, d > 0
IsCeil(c, a, d) == c * d >= a /\ (c - 1) * d < a
\* ceil(renderedWidth(viewport) * density) of sample i is the width w
IdealWidthIs(i, w) ==
  /\ contexts[i].viewport.v \in DOMAIN imageWidths
  /\ ~contexts[i].density.nan
  /\ IsCeil(w, imageWidths[contexts[i].viewport.v] * contexts[i].density.num,
            contexts[i].density.den)
\* sum of the views of the samples of S, NaN as soon as one is NaN
ViewsOf(S) ==
  IF \E i \in S : contexts[i].views.nan THEN NaN
  ELSE Int2(SumOver(S, [i \in Samples |-> contexts[i].views.v]))

\* --- C1: with more than n perfect widths and n >= 1 the selection step
\* returns exactly n distinct ascending widths, each the largest idealWidth
\* of one of n contiguous groups of the buckets (so the largest idealWidth
\* is one of them), with minimal total waste sum((assigned - ideal) * weight)
ServedBy(S, w) == CHOOSE x \in S : x >= w /\ \A y \in S : y >= w => x <= y
Waste(S) ==
  SumOver(Buckets, [i \in Buckets |->
    (ServedBy(S, perfectWidths[i].width) - perfectWidths[i].width)
      * perfectWidths[i].percentage.n])
Selections(n) ==
  {S \in SUBSET BucketWidths :
     /\ Cardinality(S) = n
     /\ \A w \in BucketWidths : \E x \in S : x >= w}
C1_SelectsNWidths ==
  (/\ WidthsSelected
   /\ argv.widthsnumber >= 1
   /\ Len(perfectWidths) > argv.widthsnumber
   /\ ~totalViews.nan /\ totalViews.v > 0)
  => \E S \in Selections(argv.widthsnumber) :
       /\ Len(srcset) = argv.widthsnumber
       /\ {srcset[i] : i \in 1..Len(srcset)} = S
       /\ \A i \in 1..(Len(srcset) - 1) : srcset[i] < srcset[i + 1]
       /\ \A T \in Selections(argv.widthsnumber) : Waste(S) <= Waste(T)

\* --- C2: when the profiling loop completes without error for a range with
\* minViewport <= maxViewport, the viewport widths with a recorded image
\* width are exactly the integers minViewport..maxViewport
C2_ProfileDomain ==
  (ProfilingCompleted /\ JSLe(minViewport, maxViewport))
  => DOMAIN imageWidths = minViewport.v..maxViewport.v
C2_Witness ==
  /\ ProfilingCompleted
  /\ JSLt(minViewport, maxViewport)
  /\ DOMAIN imageWidths = minViewport.v..maxViewport.v

\* --- C3: after a failed page load or a failed measurement step the
\* histogram and the selection steps are never executed
C3_AbortOnFailure == ProfilingFailed => ~HistogramBuilt

\* --- C4: in a run in which a stage failed no output file is written
C4_NoOutputAfterFailure ==
  StageFailed => ~variationsfile.written /\ ~destfile.written

\* --- C5: a launched browser is closed on every exit path: when the run
\* is over, a browser that was launched has been closed
C5_BrowserClosedOnExit ==
  (pc \in {"done", "rejected"} /\ browser # "none") => browser = "closed"

\* --- C6: for a valid dataset and any effective range, after a profiling
\* run without error, the weights of the buckets sum to 1: the denominator
\* is positive and the accumulated views of the buckets add up to it
ValidSample(c) ==
  /\ ~c.viewport.nan /\ c.viewport.v > 0
  /\ ~c.density.nan /\ c.density.num > 0
  /\ ~c.views.nan /\ c.views.v >= 0
ValidDataset ==
  /\ Len(contexts) > 0
  /\ \A i \in Samples : ValidSample(contexts[i])
  /\ ViewsOf(Samples).v > 0
C6_WeightsSumToOne ==
  (HistogramBuilt /\ ValidDataset /\ ~ProfilingFailed)
  => /\ \A i \in Buckets : /\ perfectWidths[i].percentage.k = "num"
                           /\ perfectWidths[i].percentage.d = totalViews.v
     /\ totalViews.v > 0
     /\ SumOver(Buckets, [i \in Buckets |-> perfectWidths[i].percentage.n])
          = totalViews.v

\* --- C7: the weight of every bucket is the views of the included samples
\* whose ceil(renderedWidth * density) is the bucket's idealWidth, divided
\* by the views of all the included samples; samples outside the range
\* count in neither
C7_BucketWeight ==
  HistogramBuilt
  => \A b \in Buckets :
       perfectWidths[b].percentage =
         JSDiv(ViewsOf({i \in IncludedSamples :
                          IdealWidthIs(i, perfectWidths[b].width)}),
               ViewsOf(IncludedSamples))
C7_Witness ==
  /\ HistogramBuilt
  /\ \E i \in Samples : ~Included(i) /\ JSGt(contexts[i].views, Int2(0))
  /\ \E b \in Buckets : /\ perfectWidths[b].percentage.k = "num"
                        /\ perfectWidths[b].percentage.n > 0

\* --- C8 as stated: the buckets handed to the selection step are sorted by
\* idealWidth ascending and none has zero accumulated views
C8_SortedByWidthNoZero ==
  HistogramBuilt
  => /\ \A i \in Buckets : \A j \in Buckets :
          i < j => perfectWidths[i].width < perfectWidths[j].width
     /\ \A i \in Buckets :
          perfectWidthsTemp[Int2(perfectWidths[i].width)] # Int2(0)
\* --- C8 amended: for view counts that are non-negative integers the
\* buckets handed to the selection step are sorted by weight descending,
\* and there is one bucket per non-negative ideal width that was
\* accumulated, the ones with zero views included
NonNegativeViews ==
  \A i \in Samples : ~contexts[i].views.nan /\ contexts[i].views.v >= 0
C8_SortedByWeight ==
  (HistogramBuilt /\ NonNegativeViews)
  => /\ \A i \in Buckets : \A j \in Buckets :
          (i < j /\ perfectWidths[i].percentage.k = "num")
          => /\ perfectWidths[j].percentage.k = "num"
             /\ perfectWidths[i].percentage.d > 0
             /\ perfectWidths[i].percentage.d = perfectWidths[j].percentage.d
             /\ perfectWidths[i].percentage.n >= perfectWidths[j].percentage.n
     /\ BucketWidths = {k.v : k \in indices(perfectWidthsTemp)}
     /\ Len(perfectWidths) = Cardinality(BucketWidths)
C8_Witness ==
  /\ HistogramBuilt /\ NonNegativeViews
  /\ Len(perfectWidths) >= 2
  /\ perfectWidths[1].width > perfectWidths[2].width
  /\ perfectWidths[2].percentage.k = "num"

\* --- C9: loading fails, before any browser is launched, when the data has
\* no row or a row whose viewport or views is not a non-negative integer or
\* whose density is not a positive number; no such row becomes a sample of
\* the histogram
MalformedSample(c) ==
  \/ c.viewport.nan \/ c.viewport.v < 0
  \/ c.views.nan \/ c.views.v < 0
  \/ c.density.nan \/ c.density.num <= 0
InvalidData ==
  LET rows == csvparse(contextsCsv)
  IN Len(rows) = 0 \/ \E i \in 1..Len(rows) : MalformedSample(rows[i])
C9_InvalidRowsRejected ==
  /\ (pc # "load" /\ InvalidData) => (pc = "rejected" /\ browser = "none")
  /\ HistogramBuilt
     => \A i \in IncludedSamples : ~MalformedSample(contexts[i])

\* --- C10: the effective range is [max(contextMin, --minviewport),
\* min(contextMax, --maxviewport)], an absent option leaving the context
\* bound, so it lies inside the range of the context viewports; after a
\* profiling run without error every included sample has a recorded image
\* width; with an empty range nothing is measured and nothing is included
NumericViewports == \A i \in Samples : ~contexts[i].viewport.nan
LeastViewport ==
  CHOOSE m \in {contexts[i].viewport.v : i \in Samples} :
    \A i \in Samples : m <= contexts[i].viewport.v
GreatestViewport ==
  CHOOSE m \in {contexts[i].viewport.v : i \in Samples} :
    \A i \in Samples : m >= contexts[i].viewport.v
C10_EffectiveRange ==
  (pc \notin {"load", "rejected"} \/ (pc = "rejected" /\ Len(contexts) > 0))
  => /\ NumericViewports
        => /\ minViewport.v =
                IF argv.minviewport.def /\ argv.minviewport.v > LeastViewport
                THEN argv.minviewport.v ELSE LeastViewport
           /\ maxViewport.v =
                IF argv.maxviewport.def /\ argv.maxviewport.v < GreatestViewport
                THEN argv.maxviewport.v ELSE GreatestViewport
           /\ ~minViewport.nan /\ ~maxViewport.nan
           /\ LeastViewport <= minViewport.v
           /\ maxViewport.v <= GreatestViewport
     /\ ProfilingCompleted
        => \A i \in IncludedSamples :
             contexts[i].viewport.v \in DOMAIN imageWidths
     /\ ~JSLe(minViewport, maxViewport)
        => imageWidths = <<>> /\ IncludedSamples = {}
C10_Witness ==
  /\ ProfilingCompleted
  /\ argv.minviewport.def
  /\ JSGt(minViewport, contextMinViewport)
  /\ IncludedSamples # {}
  /\ IncludedSamples # Samples
====
